---- MODULE Spec2Model ----
(***************************************************************************)
(* B+ tree secondary index over integer keys (BTreeIndex, src/src/btree.cpp)*)
(* as a state machine: the pages of the index file, the fields of the      *)
(* BTreeIndex object, and the pin counts held in the buffer manager.       *)
(* Arrays keep the 0-based slots of the source.                            *)
(***************************************************************************)
EXTENDS Integers, Sequences, FiniteSets, TLC

\* ------------------------------------------------------------------ bounds
\* leafOccupancy ranges over 2..MaxLeafOcc, nodeOccupancy over 2..MaxNodeOcc
MaxLeafOcc == 3
MaxNodeOcc == 3
\* keys handed to insertEntry are 0..MaxKey-1 (and MAX_INT where stated)
MaxKey == 6
\* at most MaxInserts entries are inserted when keys may repeat
MaxInserts == 6

\* startScan is called at most MaxScans times on one BTreeIndex object
MaxScans == 1
\* a session of scan calls has keys 0..MaxProtoKey-1 and at most
\* MaxProtoScans startScan calls
MaxProtoKey == 3
MaxProtoScans == 3
\* keys inserted before scans are run are 0..ScanMaxKey-1, each at most once
ScanMaxKey == 5
\* two indexes that are compared hold keys of 0..MaxCmpKey-1 and are scanned
\* with bounds of 0..MaxCmpKey-1
MaxCmpKey == 4

\* an index with repeated keys holds keys of 0..MaxDupKey-1 in at most
\* MaxDupInserts entries
MaxDupKey == 3
MaxDupInserts == 4

\* ------------------------------------------------------- program constants
MAX_INT == 2147483647
MIN_INT == (-2147483647) - 1

\* enum Operator
Operators == {"LT", "LTE", "GTE", "GT"}

\* content of an array slot the code never wrote (a fresh frame)
NoRid == <<0, 0>>
NoPage == 0

VARIABLES
    leafOccupancy,   \* BTreeIndex::leafOccupancy
    nodeOccupancy,   \* BTreeIndex::nodeOccupancy
    isOpen,          \* a BTreeIndex object exists on the file
    pages,           \* page id -> leaf or non-leaf node stored in the file
    numPages,        \* pages allocated in the file so far (ids 1..numPages)
    headerPageNum,   \* BTreeIndex::headerPageNum
    metaInfo,        \* the IndexMetaInfo stored on the header page
    rootPageNum,     \* BTreeIndex::rootPageNum
    rootIsLeaf,      \* BTreeIndex::rootIsLeaf
    scanExecuting,   \* BTreeIndex::scanExecuting
    nextEntry,       \* BTreeIndex::nextEntry
    currentPageNum,  \* BTreeIndex::currentPageNum (currentPageData is its frame)
    lowValInt, highValInt, lowOp, highOp,   \* scan bounds kept by the object
    pinCnt,          \* buffer manager: page id -> pin count
    unpinErr,        \* an unPinPage was issued on a page with pin count 0
    lastOp,          \* the public operation that ran last
    lastExc,         \* the exception it raised ("none" when it returned)
    inserted,        \* history: the <<key, rid>> pairs given to insertEntry
    scanArgs,        \* history: arguments of the last startScan with valid operators and range
    emitted,         \* history: rids handed out since scanArgs was set
    restarted,       \* history: startScan was called while a scan was active
    numScans,        \* history: startScan calls on this BTreeIndex object
    callArgs,        \* history: arguments of the last startScan call
    firstRun,        \* history: the scan outcome on the index built before this one
    unpinned         \* history: the <<page, dirty>> of the unPinPage calls of the last operation

vars == <<leafOccupancy, nodeOccupancy, isOpen, pages, numPages, headerPageNum,
          metaInfo, rootPageNum, rootIsLeaf, scanExecuting, nextEntry,
          currentPageNum, lowValInt, highValInt, lowOp, highOp, pinCnt,
          unpinErr, lastOp, lastExc, inserted, scanArgs, emitted,
          restarted, numScans, callArgs, firstRun, unpinned>>

treeVars == <<pages, numPages, metaInfo, rootPageNum, rootIsLeaf>>
scanVars == <<scanExecuting, nextEntry, currentPageNum, lowValInt, highValInt,
              lowOp, highOp>>
confVars == <<leafOccupancy, nodeOccupancy, headerPageNum>>

\* ------------------------------------------------------------- page codec
\* struct LeafNodeInt
LeafNodeInt(keys, rids, sib) ==
    [kind |-> "leaf", keyArray |-> keys, ridArray |-> rids, rightSibPageNo |-> sib]

\* struct NonLeafNodeInt
NonLeafNodeInt(lvl, keys, pnos) ==
    [kind |-> "nonleaf", level |-> lvl, keyArray |-> keys, pageNoArray |-> pnos]

\* PageKeyPair<int>::set(pageNo, key)
PageKeyPair(p, k) == [pageNo |-> p, key |-> k]

\* ------------------------------------------------------- buffer manager
Pin(p) == [op |-> "pin", page |-> p, dirty |-> FALSE]
UnPin(p, d) == [op |-> "unpin", page |-> p, dirty |-> d]

RECURSIVE ApplyPins(_, _)
\* pin counts after a sequence of readPage/allocPage/unPinPage calls
ApplyPins(cnt, log) ==
    IF log = <<>> THEN cnt
    ELSE LET e == Head(log)
             c == IF e.page \in DOMAIN cnt THEN cnt[e.page] ELSE 0
             n == IF e.op = "pin" THEN c + 1 ELSE IF c > 0 THEN c - 1 ELSE 0
             cnt1 == [p \in (DOMAIN cnt) \cup {e.page} |->
                         IF p = e.page THEN n ELSE cnt[p]]
         IN ApplyPins(cnt1, Tail(log))

RECURSIVE PinUnderflow(_, _)
\* some unPinPage of the sequence hits a page whose pin count is 0
PinUnderflow(cnt, log) ==
    IF log = <<>> THEN FALSE
    ELSE LET e == Head(log)
             c == IF e.page \in DOMAIN cnt THEN cnt[e.page] ELSE 0
         IN IF e.op = "unpin" /\ c = 0 THEN TRUE
            ELSE PinUnderflow(ApplyPins(cnt, <<e>>), Tail(log))

\* the <<page, dirty>> pairs of the unPinPage calls in a sequence of calls
UnpinsOf(log) ==
    {<<log[i].page, log[i].dirty>> : i \in {j \in DOMAIN log : log[j].op = "unpin"}}

\* ------------------------------------------------------------ array loops
\* for (i = from; i < to; i++) dst[i - from + at] = src[i];
CopyRange(dst, src, from, to, at) ==
    [j \in DOMAIN dst |->
        IF j >= at /\ j < at + (to - from) THEN src[j - at + from] ELSE dst[j]]

\* the shift loop run upward, for (i = first; i <= last; i++) a[i + 1] = a[i]:
\* every slot up to last + 1 gets a[first]
ShiftRight_Ascending(a, first, last) ==
    [j \in DOMAIN a |-> IF j >= first + 1 /\ j <= last + 1 THEN a[first] ELSE a[j]]

\* for (i = last; i >= first; i--) a[i + 1] = a[i];
ShiftRight(a, first, last) ==
    [j \in DOMAIN a |-> IF j >= first + 1 /\ j <= last + 1 THEN a[j - 1] ELSE a[j]]

\* for (i = from; i < occupancy; i++) a[i] = MAX_INT;
ClearFrom(a, from) == [j \in DOMAIN a |-> IF j >= from THEN MAX_INT ELSE a[j]]

\* a[i] = v;
Put(a, i, v) == [a EXCEPT ![i] = v]

\* the key array of a new node after its keys were set to MAX_INT
FreshKeys(occ) == [j \in 0..(occ - 1) |-> MAX_INT]

\* the rid array and the child array of a new frame: nothing written yet
FreshRids(occ) == [j \in 0..(occ - 1) |-> NoRid]
FreshPnos(occ) == [j \in 0..occ |-> NoPage]

\* while (index < occupancy && keyArray[index] < k) index++;
FindIndex(keyArray, occ, k) ==
    CHOOSE i \in 0..occ :
        /\ (i = occ \/ keyArray[i] >= k)
        /\ \A j \in 0..(i - 1) : keyArray[j] < k

\* a node is full when its last key slot is occupied
IsFull(keyArray, occ) == keyArray[occ - 1] # MAX_INT

\* ------------------------------------------------------------ insertLeaf
\* int mid = (leafOccupancy - 1) / 2;
LeafMid(L) == (L - 1) \div 2

\* the new sibling linked to itself
SplitSibLink_Self(oldSib, splitID) == splitID

\* the new sibling left without a right sibling
SplitSibLink_None(oldSib, splitID) == MAX_INT

\* splitNode->rightSibPageNo = leaf->rightSibPageNo;
SplitSibLink(oldSib, splitID) == oldSib

\* the split leaf keeps its old right sibling
LeftSibLink_Unlinked(oldSib, splitID) == oldSib

\* leaf->rightSibPageNo = splitID;
LeftSibLink(oldSib, splitID) == splitID

\* the pin calls of insertLeaf on a leaf that has room
LeafPins(pageNum) == <<Pin(pageNum), UnPin(pageNum, TRUE)>>

\* insertLeaf on a full leaf without the unPinPage of the new sibling
LeafSplitPins_NoUnpin(pageNum, splitID) ==
    <<Pin(pageNum), Pin(splitID), UnPin(pageNum, TRUE)>>

\* the pin calls of insertLeaf on a full leaf
LeafSplitPins(pageNum, splitID) ==
    <<Pin(pageNum), Pin(splitID), UnPin(splitID, TRUE), UnPin(pageNum, TRUE)>>

\* key or rid array of the new right sibling of a full leaf: the upper half
\* when the entry goes left (index <= mid), else the slots from mid + 1 with
\* the new value v at its place
LeafSplitRight(fresh, arr, L, index, mid0, v) ==
    IF index <= mid0
    THEN CopyRange(fresh, arr, mid0, L, 0)
    ELSE CopyRange(Put(CopyRange(fresh, arr, mid0 + 1, index, 0),
                       index - (mid0 + 1), v),
                   arr, index, L, index - (mid0 + 1) + 1)

\* key array of the left leaf after the split
LeafSplitLeftKeys(keys, index, mid0, k) ==
    IF index <= mid0
    THEN Put(ClearFrom(ShiftRight(keys, index, mid0 - 1), mid0 + 1), index, k)
    ELSE ClearFrom(keys, mid0 + 1)

\* the left leaf with the new rid written but the rids above it not shifted
LeafSplitLeftRids_Unshifted(rids, index, mid0, rid) ==
    IF index <= mid0 THEN Put(rids, index, rid) ELSE rids

\* rid array of the left leaf after the split (cleared slots keep their rid)
LeafSplitLeftRids(rids, index, mid0, rid) ==
    IF index <= mid0
    THEN Put(ShiftRight(rids, index, mid0 - 1), index, rid)
    ELSE rids

\* insertLeaf on a full leaf: a new right sibling is allocated
SplitLeaf(pgs, np, pageNum, k, rid, index) ==
    [pages |->
        [p \in (DOMAIN pgs) \cup {np + 1} |->
            IF p = np + 1
            THEN LeafNodeInt(
                    LeafSplitRight(FreshKeys(leafOccupancy), pgs[pageNum].keyArray,
                                   leafOccupancy, index, LeafMid(leafOccupancy), k),
                    LeafSplitRight(FreshRids(leafOccupancy), pgs[pageNum].ridArray,
                                   leafOccupancy, index, LeafMid(leafOccupancy), rid),
                    SplitSibLink(pgs[pageNum].rightSibPageNo, np + 1))
            ELSE IF p = pageNum
            THEN LeafNodeInt(
                    LeafSplitLeftKeys(pgs[pageNum].keyArray, index,
                                      LeafMid(leafOccupancy), k),
                    LeafSplitLeftRids(pgs[pageNum].ridArray, index,
                                      LeafMid(leafOccupancy), rid),
                    LeftSibLink(pgs[pageNum].rightSibPageNo, np + 1))
            ELSE pgs[p]],
     numPages |-> np + 1,
     pair |-> PageKeyPair(np + 1,
                 LeafSplitRight(FreshKeys(leafOccupancy), pgs[pageNum].keyArray,
                                leafOccupancy, index, LeafMid(leafOccupancy), k)[0]),
     log |-> LeafSplitPins(pageNum, np + 1)]

\* insertLeaf on a leaf that has room, writing slot index without the shift
FillLeaf_NoShift(pgs, np, pageNum, k, rid, index) ==
    [pages |->
        [pgs EXCEPT ![pageNum] =
            LeafNodeInt(Put(pgs[pageNum].keyArray, index, k),
                        Put(pgs[pageNum].ridArray, index, rid),
                        pgs[pageNum].rightSibPageNo)],
     numPages |-> np,
     pair |-> PageKeyPair(MAX_INT, MAX_INT),
     log |-> LeafPins(pageNum)]

\* insertLeaf on a leaf that has room: shift right and write slot index
FillLeaf(pgs, np, pageNum, k, rid, index) ==
    [pages |->
        [pgs EXCEPT ![pageNum] =
            LeafNodeInt(
                Put(ShiftRight(pgs[pageNum].keyArray, index, leafOccupancy - 2),
                    index, k),
                Put(ShiftRight(pgs[pageNum].ridArray, index, leafOccupancy - 2),
                    index, rid),
                pgs[pageNum].rightSibPageNo)],
     numPages |-> np,
     pair |-> PageKeyPair(MAX_INT, MAX_INT),
     log |-> LeafPins(pageNum)]

\* BTreeIndex::insertLeaf: the pages, the allocation counter, the pair
\* returned upward and the pin calls issued
insertLeaf(pgs, np, pageNum, k, rid) ==
    IF IsFull(pgs[pageNum].keyArray, leafOccupancy)
    THEN SplitLeaf(pgs, np, pageNum, k, rid,
                   FindIndex(pgs[pageNum].keyArray, leafOccupancy, k))
    ELSE FillLeaf(pgs, np, pageNum, k, rid,
                  FindIndex(pgs[pageNum].keyArray, leafOccupancy, k))

\* ------------------------------------------------------------ insertNode
\* int mid = (nodeOccupancy) / 2;
NodeMid(N) == N \div 2

\* the key at mid handed upward in every case
PromotedKey_Mid(keys, index, mid0, split) == keys[mid0]

\* the key insertNode hands upward when it splits a full node
PromotedKey(keys, index, mid0, split) ==
    IF index = mid0 THEN split.key
    ELSE IF index < mid0 THEN keys[mid0 - 1]
    ELSE keys[mid0]

\* key array of the new right sibling of a full non-leaf node
NodeSplitRightKeys(keys, N, index, mid0, split) ==
    IF index <= mid0
    THEN CopyRange(FreshKeys(N), keys, mid0, N, 0)
    ELSE CopyRange(Put(CopyRange(FreshKeys(N), keys, mid0 + 1, index, 0),
                       index - (mid0 + 1), split.key),
                   keys, index, N, index - (mid0 + 1) + 1)

\* child array of the new right sibling
NodeSplitRightPnos(pnos, N, index, mid0, split) ==
    IF index = mid0
    THEN Put(CopyRange(FreshPnos(N), pnos, mid0 + 1, N + 1, 1), 0, split.pageNo)
    ELSE IF index < mid0
    THEN Put(CopyRange(FreshPnos(N), pnos, mid0 + 1, N + 1, 1), 0, pnos[mid0])
    ELSE CopyRange(
            Put(CopyRange(Put(FreshPnos(N), 0, pnos[mid0 + 1]),
                          pnos, mid0 + 2, index + 1, 1),
                index - (mid0 + 1) + 1, split.pageNo),
            pnos, index + 1, N + 1, index - (mid0 + 1) + 2)

\* the left node cleared from mid + 1 on: the key at mid stays behind
NodeSplitLeftKeys_KeepsMid(keys, index, mid0, split) ==
    IF index = mid0 THEN ClearFrom(keys, mid0 + 1)
    ELSE IF index < mid0
    THEN Put(ClearFrom(ShiftRight(keys, index, mid0 - 2), mid0), index, split.key)
    ELSE ClearFrom(keys, mid0 + 1)

\* key array of the left node after the split
NodeSplitLeftKeys(keys, index, mid0, split) ==
    IF index = mid0 THEN ClearFrom(keys, mid0)
    ELSE IF index < mid0
    THEN Put(ClearFrom(ShiftRight(keys, index, mid0 - 2), mid0), index, split.key)
    ELSE ClearFrom(keys, mid0)

\* child array of the left node after the split (slots above keep their value)
NodeSplitLeftPnos(pnos, index, mid0, split) ==
    IF index < mid0
    THEN Put(ShiftRight(pnos, index + 1, mid0 - 1), index + 1, split.pageNo)
    ELSE pnos

\* insertNode unpinning its page dirty whether or not the child split
NodePins_AlwaysDirty(pageNum, subLog, dirty) ==
    <<Pin(pageNum)>> \o subLog \o <<UnPin(pageNum, TRUE)>>

\* the pin calls of insertNode around those of the child call
NodePins(pageNum, subLog, dirty) ==
    <<Pin(pageNum)>> \o subLog \o <<UnPin(pageNum, dirty)>>

NodeSplitPins(pageNum, subLog, splitID) ==
    <<Pin(pageNum)>> \o subLog \o
    <<Pin(splitID), UnPin(splitID, TRUE), UnPin(pageNum, TRUE)>>

\* insertNode after the child call returned sub: node is the page as read
\* before the call, index the slot the descent took
AddSeparator(node, pageNum, index, sub) ==
    IF sub.pair.key = MAX_INT
    THEN [pages |-> sub.pages,
          numPages |-> sub.numPages,
          pair |-> PageKeyPair(MAX_INT, MAX_INT),
          log |-> NodePins(pageNum, sub.log, FALSE)]
    ELSE IF IsFull(node.keyArray, nodeOccupancy)
    THEN [pages |->
            [p \in (DOMAIN sub.pages) \cup {sub.numPages + 1} |->
                IF p = sub.numPages + 1
                THEN NonLeafNodeInt(node.level,
                        NodeSplitRightKeys(node.keyArray, nodeOccupancy, index,
                                           NodeMid(nodeOccupancy), sub.pair),
                        NodeSplitRightPnos(node.pageNoArray, nodeOccupancy, index,
                                           NodeMid(nodeOccupancy), sub.pair))
                ELSE IF p = pageNum
                THEN NonLeafNodeInt(node.level,
                        NodeSplitLeftKeys(node.keyArray, index,
                                          NodeMid(nodeOccupancy), sub.pair),
                        NodeSplitLeftPnos(node.pageNoArray, index,
                                          NodeMid(nodeOccupancy), sub.pair))
                ELSE sub.pages[p]],
          numPages |-> sub.numPages + 1,
          pair |-> PageKeyPair(sub.numPages + 1,
                      PromotedKey(node.keyArray, index, NodeMid(nodeOccupancy),
                                  sub.pair)),
          log |-> NodeSplitPins(pageNum, sub.log, sub.numPages + 1)]
    ELSE [pages |->
            [sub.pages EXCEPT ![pageNum] =
                NonLeafNodeInt(node.level,
                    Put(ShiftRight(node.keyArray, index, nodeOccupancy - 2),
                        index, sub.pair.key),
                    Put(ShiftRight(node.pageNoArray, index + 1, nodeOccupancy - 1),
                        index + 1, sub.pair.pageNo))],
          numPages |-> sub.numPages,
          pair |-> PageKeyPair(MAX_INT, MAX_INT),
          log |-> NodePins(pageNum, sub.log, TRUE)]

RECURSIVE insertNode(_, _, _, _, _)
RECURSIVE DescendInsert(_, _, _, _, _, _)
\* BTreeIndex::insertNode: descends to the child that covers k, and adds the
\* separator the child returns, splitting this node when it is full
insertNode(pgs, np, pageNum, k, rid) ==
    DescendInsert(pgs, np, pageNum, k, rid,
                  FindIndex(pgs[pageNum].keyArray, nodeOccupancy, k))

\* the child call of insertNode at slot index, and what follows it
DescendInsert(pgs, np, pageNum, k, rid, index) ==
    AddSeparator(pgs[pageNum], pageNum, index,
                 IF pgs[pageNum].level = 1
                 THEN insertLeaf(pgs, np, pgs[pageNum].pageNoArray[index], k, rid)
                 ELSE insertNode(pgs, np, pgs[pageNum].pageNoArray[index], k, rid))

\* ----------------------------------------------------------- insertEntry
\* the root node with level 1 whatever the old root was
NewRoot_LevelOne(oldRoot, split, wasLeaf) ==
    NonLeafNodeInt(1,
                   [j \in 0..(nodeOccupancy - 1) |->
                       IF j = 0 THEN split.key ELSE MAX_INT],
                   [j \in 0..nodeOccupancy |->
                       IF j = 0 THEN oldRoot
                       ELSE IF j = 1 THEN split.pageNo ELSE NoPage])

\* the root node with its separator written to slot 1 instead of slot 0
NewRoot_SecondSlot(oldRoot, split, wasLeaf) ==
    NonLeafNodeInt(IF wasLeaf THEN 1 ELSE 0,
                   [j \in 0..(nodeOccupancy - 1) |->
                       IF j = 1 THEN split.key ELSE MAX_INT],
                   [j \in 0..nodeOccupancy |->
                       IF j = 0 THEN oldRoot
                       ELSE IF j = 1 THEN split.pageNo ELSE NoPage])

\* the root node with the first child of a non-leaf old root in slot 0
NewRoot_FirstChild(oldRoot, split, wasLeaf) ==
    NonLeafNodeInt(IF wasLeaf THEN 1 ELSE 0,
                   [j \in 0..(nodeOccupancy - 1) |->
                       IF j = 0 THEN split.key ELSE MAX_INT],
                   [j \in 0..nodeOccupancy |->
                       IF j = 0
                       THEN (IF wasLeaf THEN oldRoot
                             ELSE pages[oldRoot].pageNoArray[0])
                       ELSE IF j = 1 THEN split.pageNo ELSE NoPage])

\* the root node insertEntry builds when the old root split
NewRoot(oldRoot, split, wasLeaf) ==
    NonLeafNodeInt(IF wasLeaf THEN 1 ELSE 0,
                   [j \in 0..(nodeOccupancy - 1) |->
                       IF j = 0 THEN split.key ELSE MAX_INT],
                   [j \in 0..nodeOccupancy |->
                       IF j = 0 THEN oldRoot
                       ELSE IF j = 1 THEN split.pageNo ELSE NoPage])

\* the meta page update without the new root page number
UpdatedMeta_FlagOnly(meta, pageNum) == [meta EXCEPT !.rootIsLeaf = FALSE]

\* metaPage->rootPageNo = rootPageNum; metaPage->rootIsLeaf = false;
UpdatedMeta(meta, pageNum) ==
    [meta EXCEPT !.rootPageNo = pageNum, !.rootIsLeaf = FALSE]

\* the flag left as it was when the root split
RootFlagAfterSplit_Kept(wasLeaf) == wasLeaf

\* if (rootIsLeaf) { node->level = 1; rootIsLeaf = false; }
RootFlagAfterSplit(wasLeaf) == IF wasLeaf THEN FALSE ELSE wasLeaf

\* BTreeIndex::insertEntry(key, rid)
InsertEntry(k, rid) ==
    /\ isOpen
    /\ LET r == IF rootIsLeaf
                THEN insertLeaf(pages, numPages, rootPageNum, k, rid)
                ELSE insertNode(pages, numPages, rootPageNum, k, rid)
           split == r.pair
       IN IF split.key # MAX_INT
          THEN LET pageNum == r.numPages + 1
                   node == NewRoot(rootPageNum, split, rootIsLeaf)
                   log == r.log \o <<Pin(pageNum), Pin(headerPageNum),
                                     UnPin(pageNum, TRUE),
                                     UnPin(headerPageNum, TRUE)>>
               IN /\ pages' = [p \in (DOMAIN r.pages) \cup {pageNum} |->
                                  IF p = pageNum THEN node ELSE r.pages[p]]
                  /\ numPages' = pageNum
                  /\ rootPageNum' = pageNum
                  /\ rootIsLeaf' = RootFlagAfterSplit(rootIsLeaf)
                  /\ metaInfo' = UpdatedMeta(metaInfo, pageNum)
                  /\ pinCnt' = ApplyPins(pinCnt, log)
                  /\ unpinErr' = (unpinErr \/ PinUnderflow(pinCnt, log))
                  /\ unpinned' = UnpinsOf(log)
          ELSE /\ pages' = r.pages
               /\ numPages' = r.numPages
               /\ UNCHANGED <<rootPageNum, rootIsLeaf, metaInfo>>
               /\ pinCnt' = ApplyPins(pinCnt, r.log)
               /\ unpinErr' = (unpinErr \/ PinUnderflow(pinCnt, r.log))
               /\ unpinned' = UnpinsOf(r.log)
    /\ inserted' = inserted \cup {<<k, rid>>}
    /\ lastOp' = "insertEntry"
    /\ lastExc' = "none"
    /\ UNCHANGED <<confVars, isOpen, scanVars, scanArgs, emitted, restarted, numScans,
                   callArgs, firstRun>>

\* ------------------------------------------------------------ constructor
\* the scan arguments recorded while startScan has not been called
NoArgs == [lowVal |-> 0, lowOp |-> "GT", highVal |-> 0, highOp |-> "LT"]

\* no index was built and scanned before this one
NoRun == [done |-> FALSE, inserted |-> {}, args |-> NoArgs, exc |-> "none",
          emitted |-> <<>>]

\* BTreeIndex::BTreeIndex, file-not-found branch: header page 1, an empty
\* leaf root on page 2, both unpinned again; the relation is loaded by
\* insertEntry, one call per record
Init ==
    /\ leafOccupancy \in 2..MaxLeafOcc
    /\ nodeOccupancy \in 2..MaxNodeOcc
    /\ isOpen = TRUE
    /\ headerPageNum = 1
    /\ rootPageNum = 2
    /\ numPages = 2
    /\ pages = [p \in {2} |->
                  LeafNodeInt([j \in 0..(leafOccupancy - 1) |-> MAX_INT],
                              [j \in 0..(leafOccupancy - 1) |-> NoRid],
                              MAX_INT)]
    /\ metaInfo = [rootPageNo |-> 2, rootIsLeaf |-> TRUE]
    /\ rootIsLeaf = TRUE
    /\ scanExecuting = FALSE
    /\ nextEntry = 0
    /\ currentPageNum = 0
    /\ lowValInt = 0
    /\ highValInt = 0
    /\ lowOp = "GT"
    /\ highOp = "LT"
    /\ pinCnt = [p \in {1, 2} |-> 0]
    /\ unpinErr = FALSE
    /\ lastOp = "construct"
    /\ lastExc = "none"
    /\ inserted = {}
    /\ scanArgs = NoArgs
    /\ emitted = <<>>
    /\ restarted = FALSE
    /\ numScans = 0
    /\ callArgs = NoArgs
    /\ firstRun = NoRun
    /\ unpinned = {<<1, TRUE>>, <<2, TRUE>>}

\* the rid of the next relation record that holds key k: <<page, slot>>
NextRid(k) == <<1 + Cardinality({e \in inserted : e[1] = k}), k>>

\* keys given to insertEntry so far
InsertedKeys == {e[1] : e \in inserted}

DoInsertAny ==
    /\ Cardinality(inserted) < MaxInserts
    /\ \E k \in (0..(MaxKey - 1)) \cup {MAX_INT} : InsertEntry(k, NextRid(k))

NextIns == DoInsertAny

SpecIns == Init /\ [][NextIns]_vars

\* the page holds a leaf node
IsLeafPage(p) == pages[p].kind = "leaf"

\* ------------------------------------------------------------- startScan
\* a scan operation that clears the sibling link of the leaf it holds
PagesAfterScan_Unlinked(pgs) ==
    IF scanExecuting
    THEN [pgs EXCEPT ![currentPageNum].rightSibPageNo = MAX_INT]
    ELSE pgs

\* the pages of the file after startScan, scanNext or endScan: the three
\* read node fields through the frame pointers and assign none
PagesAfterScan(pgs) == pgs

\* lowValInt++ on a 32-bit int: the value wraps at MAX_INT
Incr32(v) == IF v = MAX_INT THEN MIN_INT ELSE v + 1

\* the descent index of startScan found as insertNode finds its own, with <
ScanIndex_Below(keyArray, occ, low) ==
    CHOOSE i \in 0..occ :
        /\ (i = occ \/ keyArray[i] >= low)
        /\ \A j \in 0..(i - 1) : keyArray[j] < low

\* while (index < nodeOccupancy && node->keyArray[index] <= lowValInt) index++;
ScanIndex(keyArray, occ, low) ==
    CHOOSE i \in 0..occ :
        /\ (i = occ \/ keyArray[i] > low)
        /\ \A j \in 0..(i - 1) : keyArray[j] <= low

\* the test of the high bound in startScan and scanNext
HighCrossed(op, high, key) ==
    \/ op = "LT" /\ key >= high
    \/ op = "LTE" /\ key > high

RECURSIVE ScanDescend(_, _, _, _)
\* the descent loop of startScan from the pinned non-leaf page pageNum: the
\* page it ends on, pinned, and the pin calls issued. A child slot that was
\* never written holds junk. readPage of a page that is not in the file
\* throws; a descent that has not ended after fuel steps never ends.
ScanDescend(pageNum, low, junk, fuel) ==
    LET node == pages[pageNum]
        index == ScanIndex(node.keyArray, nodeOccupancy, low)
        slot == node.pageNoArray[index]
        child == IF slot = NoPage THEN junk ELSE slot
    IN IF child \notin DOMAIN pages
       THEN [exc |-> "InvalidPage", page |-> child,
             log |-> <<UnPin(pageNum, FALSE)>>]
       ELSE IF node.level = 1
       THEN [exc |-> IF IsLeafPage(child) THEN "none" ELSE "WrongPageKind",
             page |-> child,
             log |-> <<UnPin(pageNum, FALSE), Pin(child)>>]
       ELSE IF IsLeafPage(child)
       THEN [exc |-> "WrongPageKind", page |-> child,
             log |-> <<UnPin(pageNum, FALSE), Pin(child)>>]
       ELSE IF fuel = 0
       THEN [exc |-> "NoReturn", page |-> child,
             log |-> <<UnPin(pageNum, FALSE), Pin(child)>>]
       ELSE LET r == ScanDescend(child, low, junk, fuel - 1)
            IN [r EXCEPT !.log = <<UnPin(pageNum, FALSE), Pin(child)>> \o r.log]

\* the operator test of startScan, a BadOpcodes only when lowOp is bad
OpsInvalid_LowOnly(lowOpParm, highOpParm) == lowOpParm \notin {"GT", "GTE"}

\* if (lowOpParm != GT && lowOpParm != GTE) ... if (highOpParm != LT && ...)
OpsInvalid(lowOpParm, highOpParm) ==
    lowOpParm \notin {"GT", "GTE"} \/ highOpParm \notin {"LT", "LTE"}

\* the range test of startScan with >= in place of >
RangeInvalid_Equal(lowValParm, highValParm) == lowValParm >= highValParm

\* if (lowValInt > highValInt)
RangeInvalid(lowValParm, highValParm) == lowValParm > highValParm

\* BTreeIndex::startScan(lowValParm, lowOpParm, highValParm, highOpParm);
\* junk is what a never written child slot holds, should the descent read one
StartScan(lowValParm, lowOpParm, highValParm, highOpParm, junk) ==
    /\ isOpen
    /\ lastOp' = "startScan"
    /\ restarted' = (restarted \/ scanExecuting)
    /\ numScans' = numScans + 1
    /\ callArgs' = [lowVal |-> lowValParm, lowOp |-> lowOpParm,
                    highVal |-> highValParm, highOp |-> highOpParm]
    /\ pages' = PagesAfterScan(pages)
    /\ UNCHANGED <<confVars, isOpen, numPages, metaInfo, rootPageNum, rootIsLeaf,
                   inserted, firstRun>>
    /\ IF OpsInvalid(lowOpParm, highOpParm)
       THEN /\ lastExc' = "BadOpcodes"
            /\ unpinned' = {}
            /\ UNCHANGED <<scanVars, pinCnt, unpinErr, scanArgs, emitted>>
       ELSE IF RangeInvalid(lowValParm, highValParm)
       THEN /\ lastExc' = "BadScanrange"
            /\ unpinned' = {}
            /\ lowValInt' = lowValParm
            /\ highValInt' = highValParm
            /\ UNCHANGED <<scanExecuting, nextEntry, currentPageNum, lowOp,
                           highOp, pinCnt, unpinErr, scanArgs, emitted>>
       ELSE
         LET low == IF lowOpParm = "GT" THEN Incr32(lowValParm) ELSE lowValParm
             d == IF rootIsLeaf
                  THEN [exc |-> "none", page |-> rootPageNum,
                        log |-> <<Pin(rootPageNum)>>]
                  ELSE LET r == ScanDescend(rootPageNum, low, junk, numPages)
                       IN [r EXCEPT !.log = <<Pin(rootPageNum)>> \o r.log]
             leaf == pages[d.page]
             index == FindIndex(leaf.keyArray, leafOccupancy, low)
             found == /\ index < leafOccupancy
                      /\ ~HighCrossed(highOpParm, highValParm, leaf.keyArray[index])
             log == IF d.exc = "none" /\ ~found
                    THEN d.log \o <<UnPin(d.page, FALSE)>> ELSE d.log
         IN /\ d.exc # "WrongPageKind"
            /\ lowValInt' = low
            /\ highValInt' = highValParm
            /\ lowOp' = lowOpParm
            /\ highOp' = highOpParm
            /\ scanArgs' = [lowVal |-> lowValParm, lowOp |-> lowOpParm,
                            highVal |-> highValParm, highOp |-> highOpParm]
            /\ emitted' = <<>>
            /\ pinCnt' = ApplyPins(pinCnt, log)
            /\ unpinErr' = (unpinErr \/ PinUnderflow(pinCnt, log))
            /\ unpinned' = UnpinsOf(log)
            /\ IF d.exc # "none"
               THEN /\ lastExc' = d.exc
                    /\ UNCHANGED <<scanExecuting, nextEntry, currentPageNum>>
               ELSE IF ~found
               THEN /\ lastExc' = "NoSuchKeyFound"
                    /\ UNCHANGED <<scanExecuting, nextEntry, currentPageNum>>
               ELSE /\ lastExc' = "none"
                    /\ nextEntry' = index
                    /\ currentPageNum' = d.page
                    /\ scanExecuting' = TRUE

\* -------------------------------------------------------------- scanNext
\* BTreeIndex::scanNext(outRid)
ScanNext ==
    /\ isOpen
    /\ lastOp' = "scanNext"
    /\ pages' = PagesAfterScan(pages)
    /\ UNCHANGED <<confVars, isOpen, numPages, metaInfo, rootPageNum, rootIsLeaf,
                   inserted, scanArgs, restarted,
                   numScans, scanExecuting, lowValInt, highValInt, lowOp, highOp,
                   callArgs, firstRun>>
    /\ IF ~scanExecuting
       THEN /\ lastExc' = "ScanNotInitialized"
            /\ unpinned' = {}
            /\ UNCHANGED <<nextEntry, currentPageNum, pinCnt, unpinErr, emitted>>
       ELSE
         LET leaf == pages[currentPageNum]
             atEnd == \/ nextEntry >= leafOccupancy
                      \/ leaf.keyArray[nextEntry] = MAX_INT
         IN IF atEnd /\ leaf.rightSibPageNo = MAX_INT
            THEN /\ lastExc' = "IndexScanCompleted"
                 /\ unpinned' = {}
                 /\ UNCHANGED <<nextEntry, currentPageNum, pinCnt, unpinErr, emitted>>
            ELSE
              LET pg == IF atEnd THEN leaf.rightSibPageNo ELSE currentPageNum
                  ne == IF atEnd THEN 0 ELSE nextEntry
                  log == IF atEnd
                         THEN <<UnPin(currentPageNum, FALSE), Pin(pg)>> ELSE <<>>
              IN /\ currentPageNum' = pg
                 /\ pinCnt' = ApplyPins(pinCnt, log)
                 /\ unpinErr' = (unpinErr \/ PinUnderflow(pinCnt, log))
                 /\ unpinned' = UnpinsOf(log)
                 /\ IF HighCrossed(highOp, highValInt, pages[pg].keyArray[ne])
                    THEN /\ lastExc' = "IndexScanCompleted"
                         /\ nextEntry' = ne
                         /\ UNCHANGED emitted
                    ELSE /\ lastExc' = "none"
                         /\ nextEntry' = ne + 1
                         /\ emitted' = Append(emitted, pages[pg].ridArray[ne])

\* --------------------------------------------------------------- endScan
\* endScan with the unPinPage placed before the test of scanExecuting
EndScanPins_Always(active, pageNum) == <<UnPin(pageNum, FALSE)>>

\* endScan without its unPinPage
EndScanPins_None(active, pageNum) == <<>>

\* the pin calls of endScan: none when it throws, else the leaf is unpinned
EndScanPins(active, pageNum) ==
    IF active THEN <<UnPin(pageNum, FALSE)>> ELSE <<>>

\* endScan without the reset of scanExecuting
EndScanFlag_Kept(active) == active

\* scanExecuting = false;
EndScanFlag(active) == FALSE

\* BTreeIndex::endScan()
EndScan ==
    /\ isOpen
    /\ lastOp' = "endScan"
    /\ pages' = PagesAfterScan(pages)
    /\ UNCHANGED <<confVars, isOpen, numPages, metaInfo, rootPageNum, rootIsLeaf,
                   inserted, scanArgs, restarted,
                   numScans, nextEntry, currentPageNum, lowValInt, highValInt,
                   lowOp, highOp, emitted, callArgs, firstRun>>
    /\ pinCnt' = ApplyPins(pinCnt, EndScanPins(scanExecuting, currentPageNum))
    /\ unpinned' = UnpinsOf(EndScanPins(scanExecuting, currentPageNum))
    /\ unpinErr' = (unpinErr \/
                    PinUnderflow(pinCnt, EndScanPins(scanExecuting, currentPageNum)))
    /\ IF ~scanExecuting
       THEN /\ lastExc' = "ScanNotInitialized"
            /\ UNCHANGED scanExecuting
       ELSE /\ lastExc' = "none"
            /\ scanExecuting' = EndScanFlag(scanExecuting)

\* ------------------------------------------------- destructor and reopen
\* BTreeIndex::~BTreeIndex(): the scan is marked inactive and the file is
\* flushed; the fields of the object are gone (the scan fields are reset,
\* rootPageNum and rootIsLeaf keep the value the object had last)
Destroy ==
    /\ isOpen
    /\ isOpen' = FALSE
    /\ scanExecuting' = FALSE
    /\ nextEntry' = 0
    /\ currentPageNum' = 0
    /\ lowValInt' = 0
    /\ highValInt' = 0
    /\ lowOp' = "GT"
    /\ highOp' = "LT"
    /\ emitted' = <<>>
    /\ scanArgs' = NoArgs
    /\ callArgs' = NoArgs
    /\ lastOp' = "destruct"
    /\ unpinned' = {}
    /\ lastExc' = "none"
    /\ UNCHANGED <<confVars, treeVars, pinCnt, unpinErr, inserted, restarted,
                   numScans, firstRun>>

\* BTreeIndex::BTreeIndex, file-exists branch: the root is read from the
\* meta page, which is pinned and unpinned clean
Open ==
    /\ ~isOpen
    /\ isOpen' = TRUE
    /\ rootPageNum' = metaInfo.rootPageNo
    /\ rootIsLeaf' = metaInfo.rootIsLeaf
    /\ pinCnt' = ApplyPins(pinCnt, <<Pin(headerPageNum), UnPin(headerPageNum, FALSE)>>)
    /\ unpinned' = UnpinsOf(<<Pin(headerPageNum), UnPin(headerPageNum, FALSE)>>)
    /\ unpinErr' = (unpinErr \/
                    PinUnderflow(pinCnt, <<Pin(headerPageNum),
                                           UnPin(headerPageNum, FALSE)>>))
    /\ restarted' = FALSE
    /\ numScans' = 0
    /\ lastOp' = "open"
    /\ lastExc' = "none"
    /\ UNCHANGED <<confVars, pages, numPages, metaInfo, scanVars, inserted,
                   scanArgs, emitted, callArgs, firstRun>>

\* ------------------------------------------------------- specifications
\* values handed to startScan as lowVal and highVal
ScanVals == (0..(ScanMaxKey - 1)) \cup {MAX_INT - 1, MAX_INT}

\* the <<lowVal, highVal>> pairs handed to startScan: every ordered pair, and
\* one pair with lowVal > highVal
ScanRanges == {r \in ScanVals \X ScanVals : r[1] <= r[2]} \cup {<<1, 0>>}

\* the <<lowOp, highOp>> pairs handed to startScan: the four valid pairs, one
\* with a bad lowOp and one with a bad highOp
ScanOps == ({"GT", "GTE"} \X {"LT", "LTE"}) \cup {<<"LTE", "LTE">>, <<"GTE", "GTE">>}

\* what a never written child slot may hold: no page of the file, or a leaf
JunkPages(low) ==
    IF low = MAX_INT /\ ~rootIsLeaf
    THEN {NoPage} \cup {p \in DOMAIN pages : IsLeafPage(p)}
    ELSE {NoPage}

\* the relation is loaded and extended before the first scan of a session
DoInsert ==
    /\ numScans = 0
    /\ \E k \in (0..(ScanMaxKey - 1)) \ InsertedKeys : InsertEntry(k, NextRid(k))

\* a session starts at most MaxScans scans, one after the other
DoStartScan ==
    /\ numScans < MaxScans
    /\ ~scanExecuting
    /\ \E r \in ScanRanges, ops \in ScanOps :
          \E junk \in JunkPages(IF ops[1] = "GT" THEN Incr32(r[1]) ELSE r[1]) :
              StartScan(r[1], ops[1], r[2], ops[2], junk)

\* an index is reopened when the session before left no page pinned
DoOpen ==
    /\ \A p \in DOMAIN pinCnt : pinCnt[p] = 0
    /\ Open

Next == DoInsert \/ DoStartScan \/ ScanNext \/ EndScan \/ Destroy \/ DoOpen

Spec == Init /\ [][Next]_vars

\* --------------------------------------------- sessions of scan calls
\* the <<lowVal, highVal>> pairs of a session of scan calls: a range that
\* holds every key, a range of one value above every key, and one pair with
\* lowVal > highVal
ProtoRanges ==
    {<<0, MaxProtoKey - 1>>, <<MaxProtoKey, MaxProtoKey>>, <<1, 0>>}

\* the relation of such a session has keys 0..MaxProtoKey-1, each at most once
ProtoInsert ==
    /\ numScans = 0
    /\ \E k \in (0..(MaxProtoKey - 1)) \ InsertedKeys : InsertEntry(k, NextRid(k))

\* startScan is called at any time, also while a scan is active
ProtoStartScan ==
    /\ numScans < MaxProtoScans
    /\ \E r \in ProtoRanges, ops \in ScanOps :
          \E junk \in JunkPages(IF ops[1] = "GT" THEN Incr32(r[1]) ELSE r[1]) :
              StartScan(r[1], ops[1], r[2], ops[2], junk)

NextProto ==
    ProtoInsert \/ ProtoStartScan \/ ScanNext \/ EndScan \/ Destroy \/ DoOpen

SpecProto == Init /\ [][NextProto]_vars

\* ------------------------------------------------ two indexes, one relation
\* the scan of the session has run to its end
ScanFinished ==
    \/ lastOp = "startScan" /\ lastExc = "NoSuchKeyFound"
    \/ lastOp = "scanNext" /\ lastExc = "IndexScanCompleted"

\* the <<lowVal, highVal>> pairs of the valid scans run on both indexes
CmpRanges == {r \in (0..(MaxCmpKey - 1)) \X (0..(MaxCmpKey - 1)) : r[1] <= r[2]}

\* the second index is loaded with records of the relation the first was
\* built from
CmpInsert ==
    /\ numScans = 0
    /\ \E k \in (0..(MaxCmpKey - 1)) \ InsertedKeys :
          /\ firstRun.done => <<k, NextRid(k)>> \in firstRun.inserted
          /\ InsertEntry(k, NextRid(k))

\* one valid scan per index; the second index is scanned once it holds the
\* entries of the first, with the arguments of the first scan
CmpStartScan ==
    /\ numScans = 0
    /\ \E r \in CmpRanges, ops \in {"GT", "GTE"} \X {"LT", "LTE"} :
          /\ firstRun.done =>
                /\ inserted = firstRun.inserted
                /\ firstRun.args = [lowVal |-> r[1], lowOp |-> ops[1],
                                    highVal |-> r[2], highOp |-> ops[2]]
          /\ StartScan(r[1], ops[1], r[2], ops[2], NoPage)

\* the end of a test and the start of the next: the scan is ended if it is
\* active, the index object destroyed, the index file removed, and an index
\* with capacities of its own is created on the empty file
Rebuild ==
    /\ isOpen
    /\ ~firstRun.done
    /\ ScanFinished
    /\ firstRun' = [done |-> TRUE, inserted |-> inserted, args |-> callArgs,
                    exc |-> lastExc, emitted |-> emitted]
    /\ leafOccupancy' \in 2..MaxLeafOcc
    /\ nodeOccupancy' \in 2..MaxNodeOcc
    /\ unpinErr' = (unpinErr \/
                    PinUnderflow(pinCnt, EndScanPins(scanExecuting, currentPageNum)))
    /\ rootPageNum' = 2
    /\ numPages' = 2
    /\ pages' = [p \in {2} |->
                   LeafNodeInt([j \in 0..(leafOccupancy' - 1) |-> MAX_INT],
                               [j \in 0..(leafOccupancy' - 1) |-> NoRid],
                               MAX_INT)]
    /\ metaInfo' = [rootPageNo |-> 2, rootIsLeaf |-> TRUE]
    /\ rootIsLeaf' = TRUE
    /\ scanExecuting' = FALSE
    /\ nextEntry' = 0
    /\ currentPageNum' = 0
    /\ lowValInt' = 0
    /\ highValInt' = 0
    /\ lowOp' = "GT"
    /\ highOp' = "LT"
    /\ pinCnt' = [p \in {1, 2} |-> 0]
    /\ lastOp' = "construct"
    /\ lastExc' = "none"
    /\ inserted' = {}
    /\ scanArgs' = NoArgs
    /\ emitted' = <<>>
    /\ restarted' = FALSE
    /\ numScans' = 0
    /\ callArgs' = NoArgs
    /\ unpinned' = {<<1, TRUE>>, <<2, TRUE>>}
    /\ UNCHANGED <<isOpen, headerPageNum>>

NextCmp == CmpInsert \/ CmpStartScan \/ ScanNext \/ Rebuild

SpecCmp == Init /\ [][NextCmp]_vars

\* ------------------------------------------------------ reading the tree
\* occupied key slots of a node: the slots before the first MAX_INT
NumKeys(keyArray, occ) ==
    Cardinality({i \in 0..(occ - 1) : \A j \in 0..i : keyArray[j] # MAX_INT})

\* children of a non-leaf page, left to right
Children(p) ==
    [i \in 1..(NumKeys(pages[p].keyArray, nodeOccupancy) + 1) |->
        pages[p].pageNoArray[i - 1]]

RECURSIVE TreeLeaves(_)
RECURSIVE LeavesOf(_)
\* the leaves below page p, left to right, as the child pointers give them
TreeLeaves(p) == IF IsLeafPage(p) THEN <<p>> ELSE LeavesOf(Children(p))
LeavesOf(cs) ==
    IF cs = <<>> THEN <<>> ELSE TreeLeaves(Head(cs)) \o LeavesOf(Tail(cs))

RECURSIVE TreeNodes(_)
\* the non-leaf pages at and below page p
TreeNodes(p) ==
    IF IsLeafPage(p) THEN {}
    ELSE {p} \cup UNION {TreeNodes(Children(p)[i]) : i \in DOMAIN Children(p)}

\* keys in the occupied slots of a leaf
LeafKeys(p) ==
    {pages[p].keyArray[i] :
        i \in 0..(NumKeys(pages[p].keyArray, leafOccupancy) - 1)}

\* keys stored in the leaves below page p
SubtreeKeys(p) ==
    UNION {LeafKeys(TreeLeaves(p)[i]) : i \in DOMAIN TreeLeaves(p)}

RECURSIVE LeftmostLeaf(_)
LeftmostLeaf(p) ==
    IF IsLeafPage(p) THEN p ELSE LeftmostLeaf(pages[p].pageNoArray[0])

RECURSIVE LeafWalk(_, _)
\* the leaves met from leaf p by following rightSibPageNo, at most fuel of them
LeafWalk(p, fuel) ==
    IF fuel = 0 \/ p \notin DOMAIN pages THEN <<>>
    ELSE IF pages[p].rightSibPageNo = MAX_INT THEN <<p>>
    ELSE <<p>> \o LeafWalk(pages[p].rightSibPageNo, fuel - 1)

\* the leaf chain from the leftmost leaf of the tree
LeafChain == LeafWalk(LeftmostLeaf(rootPageNum), numPages + 1)

\* the <<key, rid>> pairs in the occupied slots of a leaf, in slot order
LeafEntries(p) ==
    [i \in 1..NumKeys(pages[p].keyArray, leafOccupancy) |->
        <<pages[p].keyArray[i - 1], pages[p].ridArray[i - 1]>>]

RECURSIVE EntriesOf(_)
\* the entries read along a sequence of leaves
EntriesOf(ls) ==
    IF ls = <<>> THEN <<>> ELSE LeafEntries(Head(ls)) \o EntriesOf(Tail(ls))

\* every key was given to insertEntry once and is below MAX_INT
DistinctKeys ==
    /\ Cardinality(InsertedKeys) = Cardinality(inserted)
    /\ MAX_INT \notin InsertedKeys

\* the inserted keys are 0..M-1, each given once
ContiguousKeys ==
    /\ DistinctKeys
    /\ InsertedKeys = 0..(Cardinality(inserted) - 1)

\* the entry inserted with key k, when k was inserted once
EntryOf(k) == CHOOSE e \in inserted : e[1] = k

\* ---------------------------------------------------------------- scans
\* key k satisfies the low and the high predicate of a scan
Sat(args, k) ==
    /\ IF args.lowOp = "GT" THEN k > args.lowVal ELSE k >= args.lowVal
    /\ IF args.highOp = "LT" THEN k < args.highVal ELSE k <= args.highVal

\* the inserted entries whose key satisfies both bounds of the last scan
Matching == {e \in inserted : Sat(scanArgs, e[1])}

\* startScan has just raised NoSuchKeyFound
ScanFoundNone == lastOp = "startScan" /\ lastExc = "NoSuchKeyFound"

\* the scan has been read by scanNext until IndexScanCompleted
ScanCompleted == lastOp = "scanNext" /\ lastExc = "IndexScanCompleted"

\* rids emitted by the scan so far, as a set
EmittedRids == {emitted[i] : i \in 1..Len(emitted)}

\* the key an emitted rid was inserted with; MAX_INT when no entry has the rid
KeyOfRid(rid) ==
    IF \E e \in inserted : e[2] = rid
    THEN (CHOOSE e \in inserted : e[2] = rid)[1]
    ELSE MAX_INT

\* C1: on an index that holds each key of 0..M-1 once, a valid scan emits as
\* many rids as there are keys that satisfy both bounds; a scan that raises
\* NoSuchKeyFound counts as emitting none
C1_ScanCount ==
    ContiguousKeys =>
        /\ ScanFoundNone => Matching = {}
        /\ ScanCompleted => Len(emitted) = Cardinality(Matching)

\* C2: on an index of pairwise distinct keys below MAX_INT, startScan raises
\* NoSuchKeyFound only when no inserted key satisfies both bounds, and a scan
\* read to its end has emitted the rid of every key that satisfies both
C2_ScanFindsAll ==
    DistinctKeys =>
        /\ ScanFoundNone => Matching = {}
        /\ ScanCompleted => \A e \in Matching : e[2] \in EmittedRids

NothingPinned == \A p \in DOMAIN pinCnt : pinCnt[p] = 0

\* C9: in a session in which startScan is never called while a scan is
\* active, whenever no scan is active no page is pinned and no page was
\* unpinned more often than it was pinned
C9_PinsBalanced ==
    isOpen /\ ~restarted /\ ~scanExecuting => NothingPinned /\ ~unpinErr

\* an endScan after a scan that moved along the leaf chain of a grown tree
C9_Witness ==
    /\ lastOp = "endScan"
    /\ lastExc = "none"
    /\ ~restarted
    /\ ~rootIsLeaf
    /\ pages[rootPageNum].level = 0
    /\ Len(emitted) >= 3
    /\ NothingPinned

\* ------------------------------------------------------------ meta page
\* C10: the root page number and the root-is-leaf flag of the meta page equal
\* those of the object after creation and after every insertEntry, and a
\* reopened index has the root the closed one had
C10_MetaMatchesRoot ==
    /\ metaInfo.rootPageNo = rootPageNum
    /\ metaInfo.rootIsLeaf = rootIsLeaf

\* an index reopened after its root was replaced twice
C10_Witness ==
    /\ lastOp = "open"
    /\ isOpen
    /\ ~rootIsLeaf
    /\ pages[rootPageNum].level = 0
    /\ rootPageNum = metaInfo.rootPageNo

\* ------------------------------------------------------ scan protocol
\* every variable but the record of the last operation (lastOp, lastExc,
\* unpinned)
stateVars == <<leafOccupancy, nodeOccupancy, isOpen, pages, numPages,
               headerPageNum, metaInfo, rootPageNum, rootIsLeaf, scanExecuting,
               nextEntry, currentPageNum, lowValInt, highValInt, lowOp, highOp,
               pinCnt, unpinErr, inserted, scanArgs, emitted, restarted,
               numScans, callArgs, firstRun>>

\* the step is a startScan call
StartScanStep == numScans' = numScans + 1

\* the operators of the last startScan call are a valid pair
OpsValid == callArgs.lowOp \in {"GT", "GTE"} /\ callArgs.highOp \in {"LT", "LTE"}

\* C11: a startScan call whose lowOp is not GT or GTE, or whose highOp is not
\* LT or LTE, raises BadOpcodes whatever lowVal and highVal are, changes no
\* pin count and leaves the scan flag as it was
C11_BadOpcodes ==
    [][StartScanStep /\ ~OpsValid'
          => /\ lastExc' = "BadOpcodes"
             /\ pinCnt' = pinCnt
             /\ unpinErr' = unpinErr
             /\ scanExecuting' = scanExecuting]_vars

\* BadOpcodes raised for a pair with lowVal > highVal and a bad highOp only
C11_Witness ==
    /\ lastOp = "startScan"
    /\ lastExc = "BadOpcodes"
    /\ callArgs.lowVal > callArgs.highVal
    /\ callArgs.lowOp \in {"GT", "GTE"}

\* C12: a startScan call with valid operators raises BadScanrange exactly
\* when lowVal > highVal, and then changes no pin count and leaves the scan
\* flag as it was
C12_BadScanrange ==
    [][StartScanStep /\ OpsValid'
          => /\ (lastExc' = "BadScanrange") <=> (callArgs'.lowVal > callArgs'.highVal)
             /\ lastExc' = "BadScanrange"
                   => /\ pinCnt' = pinCnt
                      /\ unpinErr' = unpinErr
                      /\ scanExecuting' = scanExecuting]_vars

\* BadScanrange raised while a scan is active
C12_Witness ==
    /\ lastOp = "startScan"
    /\ lastExc = "BadScanrange"
    /\ scanExecuting
    /\ callArgs.lowVal > callArgs.highVal

\* C13: while no scan is active, scanNext and endScan raise
\* ScanNotInitialized and change nothing; no scan is active before the first
\* startScan, after an endScan that returned, and after a startScan that
\* failed while no scan was active
C13_NotInitialized ==
    /\ [](isOpen /\ numScans = 0 => ~scanExecuting)
    /\ [](lastOp = "endScan" /\ lastExc = "none" => ~scanExecuting)
    /\ [][StartScanStep /\ ~scanExecuting
             /\ lastExc' \in {"BadOpcodes", "BadScanrange", "NoSuchKeyFound"}
             => ~scanExecuting']_vars
    /\ [][~scanExecuting /\ lastOp' \in {"scanNext", "endScan"}
             => lastExc' = "ScanNotInitialized" /\ UNCHANGED stateVars]_vars

\* scanNext refused after a startScan that found no key
C13_Witness ==
    /\ lastOp = "scanNext"
    /\ lastExc = "ScanNotInitialized"
    /\ numScans >= 1
    /\ callArgs.lowVal = callArgs.highVal
    /\ OpsValid
    /\ ~scanExecuting

\* C14: a startScan that raises NoSuchKeyFound while no scan is active
\* leaves the scan inactive and no page pinned, and the endScan or scanNext
\* that follows raises ScanNotInitialized
C14_NoSuchKeyUnpinned ==
    /\ [][StartScanStep /\ ~scanExecuting /\ lastExc' = "NoSuchKeyFound"
             => ~scanExecuting' /\ NothingPinned']_vars
    /\ [][ScanFoundNone /\ ~scanExecuting /\ lastOp' \in {"scanNext", "endScan"}
             => lastExc' = "ScanNotInitialized"]_vars

\* C15: when scanNext has raised IndexScanCompleted the scan is still active
\* and its leaf pinned; a further scanNext raises IndexScanCompleted again
\* and emits nothing; the next endScan returns, unpins that leaf once and
\* deactivates the scan
C15_CompletedStaysActive ==
    /\ [](ScanCompleted
            => /\ scanExecuting
               /\ currentPageNum \in DOMAIN pinCnt
               /\ pinCnt[currentPageNum] >= 1)
    /\ [][ScanCompleted /\ lastOp' = "scanNext"
             => lastExc' = "IndexScanCompleted" /\ emitted' = emitted]_vars
    /\ [][ScanCompleted /\ lastOp' = "endScan"
             => /\ lastExc' = "none"
                /\ ~scanExecuting'
                /\ unpinErr' = unpinErr
                /\ pinCnt' = [pinCnt EXCEPT ![currentPageNum] = @ - 1]]_vars

\* a scan stopped by its high bound after two rids
C15_Witness ==
    /\ lastOp = "scanNext"
    /\ lastExc = "IndexScanCompleted"
    /\ Len(emitted) >= 2
    /\ scanExecuting
    /\ pinCnt[currentPageNum] = 1

\* C17 as stated: the endScan that follows an endScan that returned has the
\* same outcome and leaves the same state
C17_Original ==
    [][lastOp = "endScan" /\ lastExc = "none" /\ lastOp' = "endScan"
          => lastExc' = "none" /\ UNCHANGED stateVars]_vars

\* C17: the endScan that follows an endScan that returned raises
\* ScanNotInitialized and leaves the state as the first call left it: the
\* scan inactive and no pin count changed
C17_SecondEndScan ==
    [][lastOp = "endScan" /\ lastExc = "none" /\ lastOp' = "endScan"
          => lastExc' = "ScanNotInitialized" /\ UNCHANGED stateVars]_vars

\* endScan refused after a scan that emitted rids was ended
C17_Witness ==
    /\ lastOp = "endScan"
    /\ lastExc = "ScanNotInitialized"
    /\ isOpen
    /\ ~scanExecuting
    /\ Len(emitted) >= 1
    /\ NothingPinned

\* C18: in a session of scan calls at most one leaf is pinned, once, between
\* operations, and after an endScan that returned no page is pinned
C18_OnePinnedLeaf ==
    /\ \A p \in DOMAIN pinCnt : pinCnt[p] <= 1
    /\ Cardinality({p \in DOMAIN pinCnt : pinCnt[p] > 0}) <= 1
    /\ lastOp = "endScan" /\ lastExc = "none" => NothingPinned

\* C16: on an index without entries a startScan with valid operators and
\* lowVal <= highVal raises NoSuchKeyFound and leaves no page pinned
C16_EmptyIndex ==
    /\ inserted = {}
    /\ lastOp = "startScan"
    /\ OpsValid
    /\ callArgs.lowVal <= callArgs.highVal
    => lastExc = "NoSuchKeyFound" /\ NothingPinned

\* C20: two indexes built from the same entries with distinct keys, whatever
\* their capacities and insertion orders, give the same outcome for the same
\* valid scan: both raise NoSuchKeyFound or both emit the same rid sequence
C20_SameOutcome ==
    /\ firstRun.done
    /\ inserted = firstRun.inserted
    /\ callArgs = firstRun.args
    /\ ScanFinished
    => lastExc = firstRun.exc /\ emitted = firstRun.emitted

\* C19: with pairwise distinct keys below MAX_INT the root is a leaf exactly
\* while at most leafOccupancy entries were inserted, and once it is no leaf
\* no insertEntry makes it a leaf again
C19_RootIsLeaf ==
    /\ [](DistinctKeys => (rootIsLeaf <=> Cardinality(inserted) <= leafOccupancy))
    /\ [][~rootIsLeaf => ~rootIsLeaf']_vars

\* the insert of entry number leafOccupancy + 1 has replaced the root
C19_Witness ==
    /\ DistinctKeys
    /\ Cardinality(inserted) = leafOccupancy + 1
    /\ ~rootIsLeaf
    /\ lastOp = "insertEntry"

\* ---------------------------------------------------------- tree shape
\* C4: after inserting a permutation of 0..M-1, the walk along rightSibPageNo
\* from the leftmost leaf reads the entries of 0, 1, ..., M-1 in this order,
\* each once and with the rid it was inserted with
C4_LeafWalkYieldsAll ==
    ContiguousKeys =>
        EntriesOf(LeafChain) =
            [i \in 1..Cardinality(inserted) |-> EntryOf(i - 1)]

C4_Witness ==
    /\ ContiguousKeys
    /\ Cardinality(inserted) >= 5
    /\ ~rootIsLeaf
    /\ pages[rootPageNum].level = 0
    /\ Len(LeafChain) >= 4

\* separators bound the subtrees on both sides, in every non-leaf page
SeparatorsBound ==
    \A p \in TreeNodes(rootPageNum) :
        \A i \in 0..(NumKeys(pages[p].keyArray, nodeOccupancy) - 1) :
            /\ \A x \in SubtreeKeys(pages[p].pageNoArray[i]) :
                  x < pages[p].keyArray[i]
            /\ \A x \in SubtreeKeys(pages[p].pageNoArray[i + 1]) :
                  x >= pages[p].keyArray[i]

\* C5 as stated: for any sequence of insertEntry calls
C5_Original == SeparatorsBound

\* C5: for any sequence of insertEntry calls with pairwise distinct keys, every
\* key below child c[i] is < k[i] and every key below child c[i+1] is >= k[i]
C5_SeparatorsBoundDistinct == DistinctKeys => SeparatorsBound

C5_Witness ==
    /\ DistinctKeys
    /\ ~rootIsLeaf
    /\ pages[rootPageNum].level = 0
    /\ Cardinality(TreeNodes(rootPageNum)) >= 3

\* occupied keys of a key array are strictly increasing in slot order
Increasing(keyArray, occ) ==
    \A i \in 0..(NumKeys(keyArray, occ) - 2) : keyArray[i] < keyArray[i + 1]

Occupancy(p) == IF IsLeafPage(p) THEN leafOccupancy ELSE nodeOccupancy

AllIncreasing ==
    \A p \in DOMAIN pages : Increasing(pages[p].keyArray, Occupancy(p))

\* C6 as stated: for any sequence of insertEntry calls
C6_Original == AllIncreasing

\* C6: for any sequence of insertEntry calls with pairwise distinct keys, the
\* occupied keys of every leaf and every non-leaf page are strictly increasing
C6_IncreasingDistinct == DistinctKeys => AllIncreasing

C6_Witness ==
    /\ DistinctKeys
    /\ ~rootIsLeaf
    /\ NumKeys(pages[rootPageNum].keyArray, nodeOccupancy) >= 2
    /\ \E p \in DOMAIN pages :
          IsLeafPage(p) /\ NumKeys(pages[p].keyArray, leafOccupancy) >= 2

\* C7: in every page no MAX_INT key slot is followed by a slot that holds a
\* key: the occupied slots are a prefix of the key array
C7_SentinelSuffix ==
    \A p \in DOMAIN pages :
        \A i \in 0..(Occupancy(p) - 2) :
            pages[p].keyArray[i] = MAX_INT => pages[p].keyArray[i + 1] = MAX_INT

C7_Witness ==
    /\ ~rootIsLeaf
    /\ pages[rootPageNum].level = 0
    /\ \E p \in DOMAIN pages :
          /\ IsLeafPage(p)
          /\ pages[p].keyArray[0] # MAX_INT
          /\ pages[p].keyArray[leafOccupancy - 1] = MAX_INT

\* C8: the walk along rightSibPageNo from the leftmost leaf visits the leaves
\* of the tree in tree order, each once, ends at a leaf whose rightSibPageNo is
\* MAX_INT, and no key of a right sibling is below the last key of its leaf
C8_LeafChain ==
    /\ LeafChain = TreeLeaves(rootPageNum)
    /\ pages[LeafChain[Len(LeafChain)]].rightSibPageNo = MAX_INT
    /\ \A i \in 1..(Len(LeafChain) - 1) :
          \A x \in LeafKeys(LeafChain[i]) :
              \A y \in LeafKeys(LeafChain[i + 1]) : y >= x

C8_Witness ==
    /\ Len(LeafChain) >= 4
    /\ ~rootIsLeaf
    /\ pages[rootPageNum].level = 0

\* ---------------------------------------------------------- insert steps
\* a step that is one insertEntry call, and the entry it was given
InsertStep == inserted' # inserted /\ inserted \subseteq inserted'
NewEntry == CHOOSE e \in inserted' \ inserted : TRUE

RECURSIVE DescendLeaf(_, _)
\* the leaf the descent of insertNode reaches from non-leaf page p for key k
DescendLeaf(p, k) ==
    IF pages[p].level = 1
    THEN pages[p].pageNoArray[FindIndex(pages[p].keyArray, nodeOccupancy, k)]
    ELSE DescendLeaf(
            pages[p].pageNoArray[FindIndex(pages[p].keyArray, nodeOccupancy, k)], k)

\* the leaf insertEntry hands key k to
TargetLeaf(k) == IF rootIsLeaf THEN rootPageNum ELSE DescendLeaf(rootPageNum, k)

\* the step is an insertEntry whose target leaf is full
FullLeafStep ==
    /\ InsertStep
    /\ IsFull(pages[TargetLeaf(NewEntry[1])].keyArray, leafOccupancy)

\* slots 0..n-1 of a leaf as <<key, rid>> pairs
LeafSlots(leaf, n) ==
    [i \in 1..n |-> <<leaf.keyArray[i - 1], leaf.ridArray[i - 1]>>]

\* a sequence of <<key, rid>> pairs in non-decreasing key order
KeySorted(s) == \A i \in 1..(Len(s) - 1) : s[i][1] <= s[i + 1][1]

SeqSet(s) == {s[i] : i \in 1..Len(s)}

\* the two leaves a split of the full leaf old leaves behind: left holds
\* nl entries, sib the other L + 1 - nl, together the old entries and e
LeafSplitOk(old, left, sib, e, nl) ==
    /\ KeySorted(LeafSlots(left, nl) \o LeafSlots(sib, leafOccupancy + 1 - nl))
    /\ SeqSet(LeafSlots(left, nl) \o LeafSlots(sib, leafOccupancy + 1 - nl))
          = SeqSet(LeafSlots(old, leafOccupancy)) \cup {e}
    /\ \A j \in nl..(leafOccupancy - 1) : left.keyArray[j] = MAX_INT
    /\ \A j \in (leafOccupancy + 1 - nl)..(leafOccupancy - 1) :
          sib.keyArray[j] = MAX_INT

\* C21: an insertEntry whose target leaf is full leaves in the target leaf
\* its first (L-1)/2 + 1 slots and in the page allocated first its first
\* L - (L-1)/2 slots occupied, the slots read left leaf first hold the L old
\* entries and the new one in key order, each rid with its key, and the key
\* insertLeaf returns is the first key of the new page
C21_LeafSplit ==
    [][FullLeafStep
          => /\ LeafSplitOk(pages[TargetLeaf(NewEntry[1])],
                            pages'[TargetLeaf(NewEntry[1])],
                            pages'[numPages + 1], NewEntry,
                            ((leafOccupancy - 1) \div 2) + 1)
             /\ insertLeaf(pages, numPages, TargetLeaf(NewEntry[1]),
                           NewEntry[1], NewEntry[2]).pair
                   = PageKeyPair(numPages + 1, pages'[numPages + 1].keyArray[0])]_vars

\* the root leaf of capacity 3 has split: two leaves of two entries each
C21_Witness ==
    /\ lastOp = "insertEntry"
    /\ leafOccupancy = 3
    /\ Cardinality(inserted) = 4
    /\ numPages = 4
    /\ NumKeys(pages[2].keyArray, leafOccupancy) = 2
    /\ NumKeys(pages[3].keyArray, leafOccupancy) = 2
    /\ pages[4].keyArray[0] = pages[3].keyArray[0]

RECURSIVE InsertPath(_, _)
\* the non-leaf pages insertNode visits from page p for key k, top down
InsertPath(p, k) ==
    IF pages[p].level = 1 THEN <<p>>
    ELSE <<p>> \o InsertPath(
            pages[p].pageNoArray[FindIndex(pages[p].keyArray, nodeOccupancy, k)], k)

\* the non-leaf pages an insertEntry of key k visits
PathNodes(k) == IF rootIsLeaf THEN {} ELSE SeqSet(InsertPath(rootPageNum, k))

\* what the child call of insertNode on page p returns
ChildResult(p, e) ==
    IF pages[p].level = 1
    THEN insertLeaf(pages, numPages,
            pages[p].pageNoArray[FindIndex(pages[p].keyArray, nodeOccupancy, e[1])],
            e[1], e[2])
    ELSE insertNode(pages, numPages,
            pages[p].pageNoArray[FindIndex(pages[p].keyArray, nodeOccupancy, e[1])],
            e[1], e[2])

\* insertNode on page p gets a split from its child and has no room for it
NodeSplits(p, e) ==
    /\ ChildResult(p, e).pair.key # MAX_INT
    /\ IsFull(pages[p].keyArray, nodeOccupancy)

\* keys and children of a non-leaf node in slot order
NodeKeys(node) ==
    [i \in 1..NumKeys(node.keyArray, nodeOccupancy) |-> node.keyArray[i - 1]]
NodeChildren(node) ==
    [i \in 1..(NumKeys(node.keyArray, nodeOccupancy) + 1) |-> node.pageNoArray[i - 1]]

\* sequence s with v put behind its first i elements
InsertAt(s, i, v) == SubSeq(s, 1, i) \o <<v>> \o SubSeq(s, i + 1, Len(s))

\* the sizes and the child order after the split of the full node old, whose
\* child at slot index returned split
NodeSplitShape(old, left, sib, index, split) ==
    /\ NumKeys(left.keyArray, nodeOccupancy) = nodeOccupancy \div 2
    /\ NumKeys(sib.keyArray, nodeOccupancy)
          = nodeOccupancy - (nodeOccupancy \div 2)
    /\ NodeChildren(left) \o NodeChildren(sib)
          = InsertAt(NodeChildren(old), index + 1, split.pageNo)

\* the promoted key lies strictly between the keys of the two nodes
PromotedBetween(left, sib, promoted) ==
    /\ \A x \in SeqSet(NodeKeys(left)) : x < promoted
    /\ \A x \in SeqSet(NodeKeys(sib)) : promoted < x

\* C22 as stated: for any keys
C22_Original ==
    [][InsertStep
          => \A p \in PathNodes(NewEntry[1]) :
                NodeSplits(p, NewEntry)
                => /\ NodeSplitShape(
                          pages[p], pages'[p],
                          pages'[insertNode(pages, numPages, p,
                                            NewEntry[1], NewEntry[2]).pair.pageNo],
                          FindIndex(pages[p].keyArray, nodeOccupancy, NewEntry[1]),
                          ChildResult(p, NewEntry).pair)
                   /\ PromotedBetween(
                          pages'[p],
                          pages'[insertNode(pages, numPages, p,
                                            NewEntry[1], NewEntry[2]).pair.pageNo],
                          insertNode(pages, numPages, p,
                                     NewEntry[1], NewEntry[2]).pair.key)]_vars

\* no key was given to insertEntry twice
PairwiseDistinct == Cardinality(InsertedKeys) = Cardinality(inserted)

\* C22: when insertNode adds the pair its child returned to a full node at
\* slot i (i < mid, i = mid or i > mid, mid = N/2): the left node keeps N/2
\* keys, the new sibling gets N - N/2, and the children of the left node
\* followed by those of the sibling are the old children with splitPageNo
\* behind the child that split; when the keys inserted so far are pairwise
\* distinct, the promoted key is above every left key and below every
\* sibling key
C22_NodeSplit ==
    [][InsertStep
          => \A p \in PathNodes(NewEntry[1]) :
                NodeSplits(p, NewEntry)
                => /\ NodeSplitShape(
                          pages[p], pages'[p],
                          pages'[insertNode(pages, numPages, p,
                                            NewEntry[1], NewEntry[2]).pair.pageNo],
                          FindIndex(pages[p].keyArray, nodeOccupancy, NewEntry[1]),
                          ChildResult(p, NewEntry).pair)
                   /\ PairwiseDistinct'
                      => PromotedBetween(
                            pages'[p],
                            pages'[insertNode(pages, numPages, p,
                                              NewEntry[1], NewEntry[2]).pair.pageNo],
                            insertNode(pages, numPages, p,
                                       NewEntry[1], NewEntry[2]).pair.key)]_vars

\* a root has just split at its first slot: the root is new, the page before
\* it is the sibling of the old root and the page before that the newest
\* leaf, which is the right sibling of the leftmost leaf
C22_Witness ==
    /\ lastOp = "insertEntry"
    /\ PairwiseDistinct
    /\ ~rootIsLeaf
    /\ rootPageNum = numPages
    /\ pages[rootPageNum].level = 0
    /\ pages[rootPageNum].pageNoArray[1] = numPages - 1
    /\ IsLeafPage(numPages - 2)
    /\ pages[LeftmostLeaf(rootPageNum)].rightSibPageNo = numPages - 2

\* what the call of insertEntry on the root page returns
RootResult(e) ==
    IF rootIsLeaf
    THEN insertLeaf(pages, numPages, rootPageNum, e[1], e[2])
    ELSE insertNode(pages, numPages, rootPageNum, e[1], e[2])

\* page p holds a non-leaf node with the one separator k between the
\* children left and right, and MAX_INT in every other key slot
OneSeparator(node, k, left, right) ==
    /\ node.kind = "nonleaf"
    /\ node.keyArray[0] = k
    /\ \A j \in 1..(nodeOccupancy - 1) : node.keyArray[j] = MAX_INT
    /\ node.pageNoArray[0] = left
    /\ node.pageNoArray[1] = right

\* C23: when the call on the root returns a split (sepKey, newRightPageId),
\* insertEntry makes a page that did not exist the root: one separator
\* sepKey, left child the old root, right child newRightPageId, level 1 if
\* the old root was a leaf and 0 otherwise, rootIsLeaf false and the meta
\* page naming the new root; when it returns no split, the root page
\* number, rootIsLeaf and the meta page are unchanged
C23_RootReplaced ==
    [][InsertStep
          => IF RootResult(NewEntry).pair.key # MAX_INT
             THEN /\ rootPageNum' \notin DOMAIN pages
                  /\ rootPageNum' \notin {headerPageNum, rootPageNum}
                  /\ OneSeparator(pages'[rootPageNum'],
                                  RootResult(NewEntry).pair.key, rootPageNum,
                                  RootResult(NewEntry).pair.pageNo)
                  /\ pages'[rootPageNum'].level = (IF rootIsLeaf THEN 1 ELSE 0)
                  /\ ~rootIsLeaf'
                  /\ metaInfo' = [rootPageNo |-> rootPageNum', rootIsLeaf |-> FALSE]
             ELSE UNCHANGED <<rootPageNum, rootIsLeaf, metaInfo>>]_vars

\* the root was replaced a second time: the new root is the page allocated
\* last, has level 0 and the old root, a non-leaf page, as its left child
C23_Witness ==
    /\ lastOp = "insertEntry"
    /\ ~rootIsLeaf
    /\ rootPageNum = numPages
    /\ pages[rootPageNum].level = 0
    /\ pages[pages[rootPageNum].pageNoArray[0]].level = 1
    /\ metaInfo.rootPageNo = rootPageNum

\* ------------------------------------------------------------- levels
\* a non-leaf page of the tree has level 1 exactly when all its children are
\* leaves, and level 0 exactly when all its children are non-leaf pages
LevelsMatch ==
    \A p \in TreeNodes(rootPageNum) :
        /\ pages[p].level = 1
              <=> \A i \in DOMAIN Children(p) : IsLeafPage(Children(p)[i])
        /\ pages[p].level = 0
              <=> \A i \in DOMAIN Children(p) : ~IsLeafPage(Children(p)[i])

\* the descent of insertEntry ends on a leaf page for every key
InsertEndsOnLeaf ==
    \A k \in (0..(MaxKey - 1)) \cup {MAX_INT} : IsLeafPage(TargetLeaf(k))

\* the descent of the last startScan ended on a page of the file
ScanEndsOnLeaf ==
    lastOp = "startScan" => lastExc \notin {"InvalidPage", "NoReturn"}

OtherLinksKept(t) ==
    \A p \in DOMAIN pages :
        IsLeafPage(p) /\ p # t => pages'[p].rightSibPageNo = pages[p].rightSibPageNo

\* C25: an insertEntry that splits a leaf gives the new sibling the former
\* rightSibPageNo of the split leaf and the split leaf the page id of the
\* sibling, and leaves the rightSibPageNo of every other leaf as it was; an
\* insertEntry that splits no leaf changes no rightSibPageNo
C25_SiblingLinks ==
    [][InsertStep
          => IF IsFull(pages[TargetLeaf(NewEntry[1])].keyArray, leafOccupancy)
             THEN /\ pages'[numPages + 1].kind = "leaf"
                  /\ pages'[numPages + 1].rightSibPageNo
                        = pages[TargetLeaf(NewEntry[1])].rightSibPageNo
                  /\ pages'[TargetLeaf(NewEntry[1])].rightSibPageNo = numPages + 1
                  /\ OtherLinksKept(TargetLeaf(NewEntry[1]))
             ELSE /\ OtherLinksKept(TargetLeaf(NewEntry[1]))
                  /\ pages'[TargetLeaf(NewEntry[1])].rightSibPageNo
                        = pages[TargetLeaf(NewEntry[1])].rightSibPageNo]_vars

\* a leaf in the middle of the chain has split: the page allocated last is
\* a leaf between two leaves
C25_Witness ==
    /\ lastOp = "insertEntry"
    /\ IsLeafPage(numPages)
    /\ pages[numPages].rightSibPageNo # MAX_INT
    /\ \E p \in DOMAIN pages :
          /\ IsLeafPage(p)
          /\ pages[p].rightSibPageNo = numPages
          /\ p # LeftmostLeaf(rootPageNum)

\* ------------------------------------------------------ insert with room
\* array after is array before with v put in at slot i and the slots from i
\* on moved right by one (the last slot falls off)
ShiftedIn(before, after, i, v, occ) ==
    \A j \in 0..(occ - 1) :
        after[j] = IF j < i THEN before[j]
                   ELSE IF j = i THEN v ELSE before[j - 1]

\* C26: an insertEntry whose target leaf is not full allocates no page,
\* changes no page but the target leaf, where the entries from the insertion
\* slot i on move right by one and (k, rid) is written at slot i, gets no
\* split from the call on the root, and leaves the root page number,
\* rootIsLeaf and the meta page as they were
C26_InsertWithRoom ==
    [][InsertStep
       /\ ~IsFull(pages[TargetLeaf(NewEntry[1])].keyArray, leafOccupancy)
          => /\ numPages' = numPages
             /\ DOMAIN pages' = DOMAIN pages
             /\ \A p \in DOMAIN pages :
                   p # TargetLeaf(NewEntry[1]) => pages'[p] = pages[p]
             /\ ShiftedIn(pages[TargetLeaf(NewEntry[1])].keyArray,
                          pages'[TargetLeaf(NewEntry[1])].keyArray,
                          FindIndex(pages[TargetLeaf(NewEntry[1])].keyArray,
                                    leafOccupancy, NewEntry[1]),
                          NewEntry[1], leafOccupancy)
             /\ ShiftedIn(pages[TargetLeaf(NewEntry[1])].ridArray,
                          pages'[TargetLeaf(NewEntry[1])].ridArray,
                          FindIndex(pages[TargetLeaf(NewEntry[1])].keyArray,
                                    leafOccupancy, NewEntry[1]),
                          NewEntry[2], leafOccupancy)
             /\ pages'[TargetLeaf(NewEntry[1])].rightSibPageNo
                   = pages[TargetLeaf(NewEntry[1])].rightSibPageNo
             /\ RootResult(NewEntry).pair.key = MAX_INT
             /\ UNCHANGED <<rootPageNum, rootIsLeaf, metaInfo>>]_vars

\* the fifth entry went into a tree of two leaves of capacity 3 and filled
\* one of them
C26_Witness ==
    /\ lastOp = "insertEntry"
    /\ DistinctKeys
    /\ leafOccupancy = 3
    /\ Cardinality(inserted) = 5
    /\ numPages = 4
    /\ \E p \in {2, 3} : NumKeys(pages[p].keyArray, leafOccupancy) = 3

\* ------------------------------------------------------------ occupancy
\* every leaf but a root leaf holds at least ceil(L/2) entries, every
\* non-leaf page but the root at least floor(N/2) separators, and a non-leaf
\* root at least one
HalfFull ==
    /\ \A i \in DOMAIN TreeLeaves(rootPageNum) :
          TreeLeaves(rootPageNum)[i] # rootPageNum
          => NumKeys(pages[TreeLeaves(rootPageNum)[i]].keyArray, leafOccupancy)
                >= (leafOccupancy + 1) \div 2
    /\ \A p \in TreeNodes(rootPageNum) :
          NumKeys(pages[p].keyArray, nodeOccupancy)
             >= (IF p = rootPageNum THEN 1 ELSE nodeOccupancy \div 2)

\* C27: in every reachable tree every non-root leaf holds at least ceil(L/2)
\* entries, every non-root internal node at least floor(N/2) separators and
\* an internal root at least one separator
C27_HalfFull == HalfFull

\* ---------------------------------------------------------- dirty flags
\* the step wrote to page p: the meta page when p is the header page, else a
\* page of the tree that is new or differs from what it was
Written(p) ==
    IF p = headerPageNum THEN metaInfo' # metaInfo
    ELSE p \notin DOMAIN pages \/ pages'[p] # pages[p]

\* C28: every unPinPage of an insertEntry, startScan, scanNext, endScan or
\* constructor-on-open call has the dirty flag true exactly when the call
\* wrote to the page, and the calls other than insertEntry write to no page
\* and unpin clean
C28_DirtyIffWritten ==
    [][/\ lastOp' \in {"insertEntry", "startScan", "scanNext", "endScan", "open"}
          => \A u \in unpinned' : u[2] <=> Written(u[1])
       /\ lastOp' \in {"startScan", "scanNext", "endScan", "open"}
          => /\ UNCHANGED <<pages, metaInfo>>
             /\ \A u \in unpinned' : ~u[2]]_vars

\* an insertEntry into a tree of two levels has unpinned the root clean and
\* the leaf, which had room, dirty
C28_Witness ==
    /\ lastOp = "insertEntry"
    /\ ~rootIsLeaf
    /\ unpinned = {<<rootPageNum, FALSE>>, <<pages[rootPageNum].pageNoArray[1], TRUE>>}

\* ------------------------------------------------------------ destructor
\* C29: when the index object has been destroyed, the scan is inactive and
\* no page of the index file is pinned, also when a scan was active
C29_DestroyedUnpinned ==
    lastOp = "destruct" => ~scanExecuting /\ NothingPinned

\* --------------------------------------------------------- boundary key
\* key k is a separator of some non-leaf page of the tree
IsSeparator(k) ==
    \E p \in TreeNodes(rootPageNum) :
        \E i \in 0..(NumKeys(pages[p].keyArray, nodeOccupancy) - 1) :
            pages[p].keyArray[i] = k

\* the one startScan of the session was a GTE scan whose lowVal is an
\* inserted key and a separator, and the key satisfies the high bound too
BoundaryScan ==
    /\ isOpen
    /\ numScans = 1
    /\ OpsValid
    /\ callArgs.lowOp = "GTE"
    /\ callArgs.lowVal \in InsertedKeys
    /\ IsSeparator(callArgs.lowVal)
    /\ Sat(callArgs, callArgs.lowVal)

\* C30: a GTE scan whose lowVal is an inserted key and a separator starts on
\* the leaf that holds the key, and the first rid scanNext emits is the rid
\* of that key
C30_BoundaryKey ==
    BoundaryScan
    => /\ lastOp = "startScan"
          => /\ lastExc = "none"
             /\ callArgs.lowVal \in LeafKeys(currentPageNum)
             /\ pages[currentPageNum].keyArray[nextEntry] = callArgs.lowVal
       /\ Len(emitted) >= 1 => emitted[1] = EntryOf(callArgs.lowVal)[2]

\* such a scan on a tree of three levels has emitted the rid of its lowVal,
\* which is the separator in the root
C30_Witness ==
    /\ BoundaryScan
    /\ lastOp = "scanNext"
    /\ pages[rootPageNum].level = 0
    /\ pages[rootPageNum].keyArray[0] = callArgs.lowVal
    /\ Len(emitted) >= 1
    /\ emitted[1] = EntryOf(callArgs.lowVal)[2]

\* ------------------------------------------------------- any key value
\* the entries the leaf walk reads in occupied slots, as a sequence
WalkEntries == EntriesOf(LeafChain)

\* C31: for every key, MAX_INT included, an insertEntry call makes the number
\* of occupied leaf entries met by the leaf walk grow by exactly one, and the
\* new <<key, rid>> is among them
C31_InsertTotal ==
    [][InsertStep
       => /\ Len(WalkEntries') = Len(WalkEntries) + 1
          /\ NewEntry \in SeqSet(WalkEntries')]_vars

\* ------------------------------------------------------- repeated keys
\* the <<lowVal, highVal>> pairs of the valid scans run on such an index
DupRanges == {r \in (0..(MaxDupKey - 1)) \X (0..(MaxDupKey - 1)) : r[1] <= r[2]}

\* records of the relation may hold the same key: each gets a rid of its own
DupInsert ==
    /\ numScans = 0
    /\ Cardinality(inserted) < MaxDupInserts
    /\ \E k \in 0..(MaxDupKey - 1) : InsertEntry(k, NextRid(k))

\* one valid scan on the loaded index
DupStartScan ==
    /\ numScans = 0
    /\ \E r \in DupRanges, ops \in {"GT", "GTE"} \X {"LT", "LTE"} :
          StartScan(r[1], ops[1], r[2], ops[2], NoPage)

NextDup == DupInsert \/ DupStartScan \/ ScanNext

SpecDup == Init /\ [][NextDup]_vars

\* keys given to insertEntry more than once
RepeatedKeys ==
    {k \in InsertedKeys : Cardinality({e \in inserted : e[1] = k}) > 1}

\* the leaf chain holds every inserted entry once, in non-decreasing key order
StoredInOrder ==
    /\ SeqSet(WalkEntries) = inserted
    /\ Len(WalkEntries) = Cardinality(inserted)
    /\ KeySorted(WalkEntries)

\* C32: the entries of a key inserted more than once are all stored in the
\* leaf chain, in non-decreasing key order, and a scan whose range includes
\* the key has emitted the rid of every one of them when it is read to its end
C32_RepeatedKeys ==
    /\ StoredInOrder
    /\ ScanCompleted
       => \A e \in Matching : e[1] \in RepeatedKeys => e[2] \in EmittedRids

\* --------------------------------------------------- exclusive low bound
\* C33: a scan with lowOp = GT emits the rid of no entry whose key is <= lowVal,
\* for every lowVal, MAX_INT included, and a GT scan with
\* lowVal = highVal = MAX_INT emits nothing
C33_GTExclusive ==
    scanArgs.lowOp = "GT" /\ numScans >= 1
    => /\ \A i \in 1..Len(emitted) :
             \A e \in inserted : e[2] = emitted[i] => e[1] > scanArgs.lowVal
       /\ scanArgs.lowVal = MAX_INT /\ scanArgs.highVal = MAX_INT
          => emitted = <<>>

\* ------------------------------------------------- failed startScan calls
\* C34: a startScan call that raises BadOpcodes or BadScanrange leaves the
\* scan state as it was: the active flag, the kept bounds and operators, the
\* current leaf and nextEntry, so that an active scan goes on unchanged
C34_FailedStartScanFrame ==
    [][StartScanStep /\ lastExc' \in {"BadOpcodes", "BadScanrange"}
          => UNCHANGED scanVars]_vars

\* ------------------------------------------------------------- balance
RECURSIVE LeafDepths(_)
\* the numbers of non-leaf pages on the paths from page p to the leaves below
LeafDepths(p) ==
    IF IsLeafPage(p) THEN {0}
    ELSE {d + 1 : d \in UNION {LeafDepths(Children(p)[i]) : i \in DOMAIN Children(p)}}

\* C35: every path from the root to a leaf has the same number of non-leaf
\* pages on it, after any sequence of inserts
C35_SameDepth == Cardinality(LeafDepths(rootPageNum)) = 1

\* a tree of three levels built by leaf splits, a split of the root and
\* a leaf split after it
C35_Witness ==
    /\ lastOp = "insertEntry"
    /\ LeafDepths(rootPageNum) = {2}
    /\ Len(TreeLeaves(rootPageNum)) >= 5

\* ---------------------------------------------------- scans only read
\* C36: startScan, scanNext and endScan, returning or raising, leave the
\* arrays and the level of every node, the sibling links, rootPageNum,
\* rootIsLeaf and the meta page as they were
C36_ScansKeepTree ==
    [][lastOp' \in {"startScan", "scanNext", "endScan"}
          => UNCHANGED treeVars]_vars

\* a scan on a tree of two or more leaves has crossed to a sibling leaf, been
\* read to its end and been closed
C36_Witness ==
    /\ lastOp = "endScan"
    /\ lastExc = "none"
    /\ ~rootIsLeaf
    /\ Len(emitted) >= 3
    /\ currentPageNum # LeftmostLeaf(rootPageNum)

\* ----------------------------------------------------------- termination
\* a scan has emitted no more rids than there are inserted entries
EmittedBounded == Len(emitted) <= Cardinality(inserted)

\* a scanNext call on an active scan raises IndexScanCompleted or emits one
\* more rid
ScanAdvances ==
    lastOp' = "scanNext" /\ scanExecuting
    => \/ lastExc' = "IndexScanCompleted" /\ emitted' = emitted
       \/ lastExc' = "none" /\ Len(emitted') = Len(emitted) + 1

\* C37: every scan terminates: each scanNext call on an active scan emits one
\* rid or raises IndexScanCompleted, and no more rids are emitted than there
\* are inserted entries; the descents of insertEntry and of startScan reach a
\* leaf after finitely many steps
C37_ScansTerminate ==
    /\ []EmittedBounded
    /\ [][ScanAdvances]_vars
    /\ []InsertEndsOnLeaf
    /\ [](lastOp = "startScan" => lastExc \notin {"InvalidPage", "NoReturn"})

====
